---- MODULE Spec2Model ----
(***************************************************************************)
(* Realtime speech-to-speech session of GPTStsService (src/src/sts.cpp):   *)
(* the foreground calls init(), start() and stop(); every successful       *)
(* start() creates one FreeRTOS task running streamingTask(), the pump,    *)
(* which polls the shared WebSocket client gptWebSocket and sends audio.   *)
(***************************************************************************)
EXTENDS Integers, Sequences, FiniteSets, TLC

\* Bound: how many pump tasks start() may create in one behaviour.
MaxTasks == 2

\* Bound: the longest byte sequence handed to base64Encode.
MaxBytes == 4

\* Bound: the longest text handed to base64Decode as it stands.
MaxText == 5

\* Bound: how many noise characters are inserted into an encoded text.
MaxNoise == 1
MaxCalls == 2      \* call identifiers the server issues
MaxCallbacks == 3  \* calls of the stream callback the handler makes for one request
MaxChunks == 4     \* audio chunks read from the response of one TTS request

Tasks == 1 .. MaxTasks

\* nullptr for the TaskHandle_t _streamingTask
NoTask == 0

\* "type" tags of inbound text messages; "malformed" is a payload that
\* deserializeJson rejects, "unknown" a tag no branch names.
TextTypes ==
  { "session.created", "session.updated", "response.created", "response.done",
    "response.audio.delta", "response.output_audio.delta", "error",
    "unknown", "malformed" }

VARIABLES
  _initialized,            \* GPTStsService::_initialized
  _isStreaming,            \* GPTStsService::_isStreaming
  _isGPTSpeaking,          \* GPTStsService::_isGPTSpeaking
  _streamingTask,          \* GPTStsService::_streamingTask (NoTask or a task)
  _audioFillCallback,      \* TRUE iff the std::function is non-empty
  _audioResponseCallback,  \* TRUE iff the std::function is non-empty
  pc,                      \* position of each pump task
  sessionCreated,          \* streamingTask's local, one per task
  wsConnected,             \* streamingTask's local, one per task
  buffer,                  \* streamingTask's audio buffer: none/alloc/freed
  wsOpen,                  \* gptWebSocket->isConnected()
  handler,                 \* task whose lambda gptWebSocket->onEvent holds
  fg,                      \* position of the foreground caller
  crashed,                 \* a task function returned: FreeRTOS aborts
  phase,                   \* history: events seen on the current connection
  turn,                    \* history: the response of this connection: none/open/done
  stopped,                 \* history: a stop() call has returned since the last task creation
  closed,                  \* history: task t has called gptWebSocket->disconnect()
  cfgFrames,               \* history: session.update frames task t transmitted
  last,                    \* history: the step just taken and what it emitted
  codec,                   \* the base64 call under study: its input and its result
  req,                     \* the speechToSpeechStream request under study
  bridge,                  \* the tool-call bridge of a session
  collect,                 \* the buffer and the results of speechToSpeech
  tts                      \* the textToSpeechStream request under study

progVars ==
  << _initialized, _isStreaming, _isGPTSpeaking, _streamingTask,
     _audioFillCallback, _audioResponseCallback,
     pc, sessionCreated, wsConnected, buffer, wsOpen, handler, crashed >>

vars ==
  << _initialized, _isStreaming, _isGPTSpeaking, _streamingTask,
     _audioFillCallback, _audioResponseCallback,
     pc, sessionCreated, wsConnected, buffer, wsOpen, handler,
     fg, crashed, phase, turn, stopped, closed, cfgFrames, last,
     codec, req, bridge, collect, tts >>

\* The state of the realtime session: the service, its pumps and its socket.
serviceVars ==
  << _initialized, _isStreaming, _isGPTSpeaking, _streamingTask,
     _audioFillCallback, _audioResponseCallback,
     pc, sessionCreated, wsConnected, buffer, wsOpen, handler,
     fg, crashed, phase, turn, stopped, closed, cfgFrames, last >>

Step(op, t, ev, out) == [op |-> op, t |-> t, ev |-> ev, out |-> out]

\* No base64 call made yet: no input bytes, no text, no decoded bytes.
NoCall == [op |-> "none", data |-> <<>>, text |-> <<>>, out |-> <<>>]

\* No speechToSpeechStream request made yet. finals and chunks count the
\* calls of the stream callback with isLastChunk true and false; late says
\* that a call followed one with isLastChunk true; op, ev and out describe
\* the step just taken.
NoRequest ==
  [pc |-> "idle", connected |-> FALSE, finals |-> 0, chunks |-> 0,
   late |-> FALSE, op |-> "none", ev |-> "", out |-> <<>>]

\* The speechToSpeech requests: 1 is the one whose task is followed, 2 is
\* another call made meanwhile or afterwards.
Requests == {1, 2}

\* speechToSpeech before any request: the static audioBuffer of the lambda
\* of lines 53-61 is empty and no AudioCallback has been called. A chunk in
\* audioBuffer is written as the request it belongs to; got[r] is the data
\* of the last call of the AudioCallback of request r.
\* wrapped says that request 1 was made through speechToSpeech, whose lambda
\* is then the stream callback of the request.
NoneCollected ==
  [wrapped |-> FALSE, audioBuffer |-> <<>>,
   calls |-> [r \in Requests |-> 0], got |-> [r \in Requests |-> <<>>]]

\* No textToSpeechStream request made yet. chunks, finals and empties count
\* the calls of the stream callback with a non-empty chunk, with
\* isLastChunk true, and with an empty chunk and isLastChunk false.
NoTtsRequest ==
  [initialized |-> FALSE, pc |-> "idle", dataReceived |-> FALSE,
   consecutiveZeroReads |-> 0, finals |-> 0, chunks |-> 0, empties |-> 0,
   late |-> FALSE, ev |-> "", out |-> <<>>]

\* The call identifiers of function-call requests.
CallIds == 1 .. MaxCalls

\* A tool-call bridge with no session: no call seen, nothing submitted.
\* calls[c] is "unseen", "pending", "consumed" or "discarded"; op, call,
\* was, wasActive, result and sent describe the step just taken.
NoBridge ==
  [state |-> "Disconnected", calls |-> [c \in CallIds |-> "unseen"],
   op |-> "none", call |-> 0, was |-> "", wasActive |-> FALSE,
   result |-> "", sent |-> <<>>]

\* A task that has been created and not yet deleted.
Alive(t) == pc[t] \in {"setup", "loop", "fill", "exit"}

\* The locals of streamingTask live on the task's stack: they are gone
\* with the task. dead is the set of tasks a step deletes.
Locals(f, dead) == [t \in Tasks |-> IF t \in dead THEN FALSE ELSE f[t]]

NumCreated == Cardinality({t \in Tasks : pc[t] # "none"})

Count(seq, x) == Cardinality({i \in 1 .. Len(seq) : seq[i] = x})

Has(seq, x) == \E i \in 1 .. Len(seq) : seq[i] = x

(***************************************************************************)
(* Construction                                                            *)
(***************************************************************************)
Init ==
  /\ _initialized = FALSE
  /\ _isStreaming = FALSE
  /\ _isGPTSpeaking = FALSE
  /\ _streamingTask = NoTask
  /\ _audioFillCallback = FALSE
  /\ _audioResponseCallback = FALSE
  /\ pc = [t \in Tasks |-> "none"]
  /\ sessionCreated = [t \in Tasks |-> FALSE]
  /\ wsConnected = [t \in Tasks |-> FALSE]
  /\ buffer = [t \in Tasks |-> "none"]
  /\ wsOpen = FALSE
  /\ handler = NoTask
  /\ fg = "idle"
  /\ crashed = FALSE
  /\ phase = "closed"
  /\ turn = "none"
  /\ stopped = FALSE
  /\ closed = [t \in Tasks |-> FALSE]
  /\ cfgFrames = [t \in Tasks |-> 0]
  /\ last = Step("boot", NoTask, "", <<>>)
  /\ codec = NoCall
  /\ req = NoRequest
  /\ bridge = NoBridge
  /\ collect = NoneCollected
  /\ tts = NoTtsRequest

(***************************************************************************)
(* gptWebSocket, the shared WebSocketsClient                               *)
(***************************************************************************)
\* What one gptWebSocket->loop() call can hand to the registered handler:
\* nothing, or one event. Text frames arrive only on an open connection.
LoopEvents(open) ==
  IF open THEN TextTypes \cup {"DISCONNECTED", "ERROR", "NONE"}
          ELSE {"CONNECTED", "DISCONNECTED", "ERROR", "NONE"}

\* isConnected() after the client has processed event ev.
OpenAfter(ev, cur) ==
  CASE ev = "CONNECTED" -> TRUE
    [] ev = "DISCONNECTED" -> FALSE
    [] OTHER -> cur

\* sendTXT transmits the frame only on a connected client.
SendTXT(open) == open

(***************************************************************************)
(* The lambda registered by streamingTask with gptWebSocket->onEvent       *)
(***************************************************************************)
\* A handler whose WStype_DISCONNECTED branch ends the session as
\* WStype_ERROR does.
StreamingAfterDisconnectStops(ev, cur) ==
  IF ev \in {"ERROR", "DISCONNECTED"} THEN FALSE ELSE cur

\* A handler that gives up the session on a text it cannot parse.
StreamingAfterParseFailureStops(ev, cur) ==
  IF ev \in {"ERROR", "malformed"} THEN FALSE ELSE cur

\* A handler whose WStype_ERROR branch only logs.
StreamingAfterErrorLogged(ev, cur) == cur

\* A handler that sets sessionCreated on session.updated instead.
SessionCreatedAfterUpdated(ev, cur) ==
  CASE ev \in {"CONNECTED", "DISCONNECTED"} -> FALSE
    [] ev = "session.updated" -> TRUE
    [] OTHER -> cur

\* sessionCreated after the handler has run on ev.
SessionCreatedAfter(ev, cur) ==
  CASE ev \in {"CONNECTED", "DISCONNECTED"} -> FALSE
    [] ev = "session.created" -> TRUE
    [] OTHER -> cur

\* A handler whose response.done branch leaves _isGPTSpeaking alone.
SpeakingAfterNoReset(ev, sc, cur) ==
  CASE ev = "DISCONNECTED" -> FALSE
    [] ev = "response.created" /\ sc -> TRUE
    [] OTHER -> cur

\* _isGPTSpeaking after the handler has run on ev; sc is the value the
\* handler reads from its captured reference to sessionCreated.
SpeakingAfter(ev, sc, cur) ==
  CASE ev = "DISCONNECTED" -> FALSE
    [] ev = "response.created" /\ sc -> TRUE
    [] ev = "response.done" /\ sc -> FALSE
    [] OTHER -> cur

\* A handler that ends the session on an error event of the server too.
StreamingAfterErrorEventStops(ev, cur) ==
  IF ev \in {"ERROR", "error"} THEN FALSE ELSE cur

\* _isStreaming after the handler has run on ev.
StreamingAfter(ev, cur) == IF ev = "ERROR" THEN FALSE ELSE cur

\* A handler that passes isLastChunk = true with every audio delta too.
HandlerCallsAlwaysLast(ev, sc, respCb) ==
  IF ev \in {"response.audio.delta", "response.output_audio.delta",
             "response.done"} /\ sc /\ respCb
    THEN <<"last">>
  ELSE <<>>

\* A handler that knows response.audio.delta only.
HandlerCallsLegacyDeltaOnly(ev, sc, respCb) ==
  IF ev = "response.audio.delta" /\ sc /\ respCb
    THEN <<"chunk">>
  ELSE IF ev = "response.done" /\ sc /\ respCb
    THEN <<"last">>
  ELSE <<>>

\* Calls of _audioResponseCallback the handler makes on ev:
\* "chunk" is (data, size, false), "last" is (nullptr, 0, true).
HandlerCalls(ev, sc, respCb) ==
  IF ev \in {"response.audio.delta", "response.output_audio.delta"} /\ sc /\ respCb
    THEN <<"chunk">>
  ELSE IF ev = "response.done" /\ sc /\ respCb
    THEN <<"last">>
  ELSE <<>>

\* The values the handler can read through its reference to sessionCreated:
\* the owner's local while the owning task exists, anything once the owner
\* has been deleted and its stack released.
ScRead ==
  IF handler \in Tasks /\ Alive(handler) THEN {sessionCreated[handler]} ELSE BOOLEAN

\* The handler's write to sessionCreated; a write through the dangling
\* reference of a deleted owner reaches no variable of a running pump.
ScWrite(ev) ==
  IF handler \in Tasks /\ Alive(handler)
    THEN [sessionCreated EXCEPT ![handler] = SessionCreatedAfter(ev, @)]
    ELSE sessionCreated

\* History of the connection: which of connected, session.created,
\* session.updated have arrived, in that order, since it was opened.
PhaseAfter(ev, cur) ==
  CASE ev = "CONNECTED" -> "connected"
    [] ev = "DISCONNECTED" -> "closed"
    [] ev = "session.created" /\ cur = "connected" -> "created"
    [] ev = "session.updated" /\ cur = "created" -> "updated"
    [] OTHER -> cur

\* History of the turn on this connection: "open" from a processed
\* response.created to the response.done that follows it, "done" after it.
TurnAfter(ev, sc, cur) ==
  CASE ev \in {"CONNECTED", "DISCONNECTED"} -> "none"
    [] ev = "response.created" /\ sc -> "open"
    [] ev = "response.done" /\ cur = "open" -> "done"
    [] OTHER -> cur

(***************************************************************************)
(* Foreground: init(), start(), stop()                                     *)
(***************************************************************************)
\* init(apiKey): an empty key is rejected.
init(keyEmpty) ==
  /\ ~crashed /\ fg = "idle"
  /\ UNCHANGED << codec, req, bridge, collect, tts >>
  /\ _initialized' = (IF keyEmpty THEN _initialized ELSE TRUE)
  /\ last' = Step("init", NoTask, IF keyEmpty THEN "false" ELSE "true", <<>>)
  /\ UNCHANGED << _isStreaming, _isGPTSpeaking, _streamingTask,
                  _audioFillCallback, _audioResponseCallback,
                  pc, sessionCreated, wsConnected, buffer, wsOpen, handler,
                  fg, crashed, phase, turn, stopped, closed, cfgFrames >>

\* start() without the WiFi test of line 333.
StartResultNoWifiTest(wifi) ==
  IF ~_initialized THEN "false"
  ELSE IF _isStreaming THEN "already"
  ELSE "true"

\* start() without the test of _isStreaming of line 328.
StartResultNoActiveTest(wifi) ==
  IF ~_initialized THEN "false"
  ELSE IF ~wifi THEN "false"
  ELSE "true"

\* start(), lines 323-336, the three tests in their order: "false" is
\* return false, "already" the return true of line 330, "true" the path
\* that goes on to create the task.
StartResult(wifi) ==
  IF ~_initialized THEN "false"
  ELSE IF _isStreaming THEN "already"
  ELSE IF ~wifi THEN "false"
  ELSE "true"

\* start(audioFillCallback, audioResponseCallback); wifi is WiFi.isConnected().
start(fillCb, respCb, wifi) ==
  /\ ~crashed /\ fg = "idle"
  /\ UNCHANGED << codec, req, bridge, collect, tts >>
  /\ IF StartResult(wifi) # "true" THEN
       /\ last' = Step("start", NoTask, StartResult(wifi), <<>>)
       /\ UNCHANGED << _isStreaming, _streamingTask, _audioFillCallback,
                       _audioResponseCallback, pc, stopped >>
     ELSE
       /\ NumCreated < MaxTasks
       /\ _audioFillCallback' = fillCb
       /\ _audioResponseCallback' = respCb
       /\ _isStreaming' = TRUE
       /\ _streamingTask' = NumCreated + 1
       /\ pc' = [pc EXCEPT ![NumCreated + 1] = "setup"]
       /\ stopped' = FALSE
       /\ last' = Step("start", NumCreated + 1, "true", <<>>)
  /\ UNCHANGED << _initialized, _isGPTSpeaking, sessionCreated, wsConnected,
                  buffer, wsOpen, handler, fg, crashed, phase, turn,
                  closed, cfgFrames >>

\* stop() without the early return of line 354.
StopNeverReturnsEarly == FALSE

\* stop(), line 354: the early return.
StopReturnsEarly == ~_isStreaming

\* stop() up to the test of _streamingTask.
StopBegin ==
  /\ ~crashed /\ fg = "idle"
  /\ UNCHANGED << codec, req, bridge, collect, tts >>
  /\ IF StopReturnsEarly THEN
       /\ stopped' = TRUE
       /\ last' = Step("stop", NoTask, IF stopped THEN "again" ELSE "early", <<>>)
       /\ UNCHANGED << _isStreaming, _isGPTSpeaking, fg >>
     ELSE
       /\ _isStreaming' = FALSE
       /\ _isGPTSpeaking' = FALSE
       /\ fg' = "stopDelete"
       /\ last' = Step("stop", NoTask, "flags", <<>>)
       /\ UNCHANGED stopped
  /\ UNCHANGED << _initialized, _streamingTask, _audioFillCallback,
                  _audioResponseCallback, pc, sessionCreated, wsConnected,
                  buffer, wsOpen, handler, crashed, phase, turn,
                  closed, cfgFrames >>

\* stop(), lines 361-364: vTaskDelete(_streamingTask) and return. Deleting
\* a handle whose task is already gone is a use after free: it may pass
\* unnoticed or bring the system down.
StopDelete ==
  /\ ~crashed /\ fg = "stopDelete"
  /\ UNCHANGED << codec, req, bridge, collect, tts >>
  /\ IF _streamingTask = NoTask THEN
       /\ last' = Step("stop", NoTask, "done", <<>>)
       /\ UNCHANGED << pc, crashed >>
     ELSE IF Alive(_streamingTask) THEN
       /\ pc' = [pc EXCEPT ![_streamingTask] = "killed"]
       /\ last' = Step("stop", _streamingTask, "done", <<"delete">>)
       /\ UNCHANGED crashed
     ELSE
       /\ crashed' \in BOOLEAN
       /\ last' = Step("stop", _streamingTask, "done", <<"deleteDead">>)
       /\ UNCHANGED pc
  /\ sessionCreated' = Locals(sessionCreated, {_streamingTask} \ {NoTask})
  /\ wsConnected' = Locals(wsConnected, {_streamingTask} \ {NoTask})
  /\ _streamingTask' = NoTask
  /\ fg' = "idle"
  /\ stopped' = TRUE
  /\ UNCHANGED << _initialized, _isStreaming, _isGPTSpeaking,
                  _audioFillCallback, _audioResponseCallback,
                  buffer, wsOpen, handler, phase, turn, closed, cfgFrames >>

(***************************************************************************)
(* The pump: GPTStsService::streamingTask and the task trampoline          *)
(***************************************************************************)
\* The condition of line 511 without its test of sessionCreated.
AudioGateNoSession(t) ==
  wsConnected[t] /\ ~_isGPTSpeaking /\ _audioFillCallback

\* Line 511: the condition under which one iteration pulls and sends audio.
AudioGate(t) ==
  wsConnected[t] /\ sessionCreated[t] /\ ~_isGPTSpeaking /\ _audioFillCallback

\* A fill step that sends every frame twice.
FillCallsSendsTwice(bytesRead, frameOk, open) ==
  IF bytesRead = 0 THEN <<"fill">>
  ELSE IF ~frameOk THEN <<"fill", "chunkDropped">>
  ELSE IF SendTXT(open) THEN <<"fill", "append", "append">>
  ELSE <<"fill", "appendLost">>

\* A fill step that frames and sends an empty chunk too.
FillCallsSendsEmpty(bytesRead, frameOk, open) ==
  IF ~frameOk THEN <<"fill", "chunkDropped">>
  ELSE IF SendTXT(open) THEN <<"fill", "append">>
  ELSE <<"fill", "appendLost">>

\* Lines 514-524: what the fill step does with the producer's answer.
\* bytesRead is 0 or 1 (any positive count); frameOk is FALSE when the
\* String concatenation failed and audioMessage came out empty.
FillCalls(bytesRead, frameOk, open) ==
  IF bytesRead = 0 THEN <<"fill">>
  ELSE IF ~frameOk THEN <<"fill", "chunkDropped">>
  ELSE IF SendTXT(open) THEN <<"fill", "append">>
  ELSE <<"fill", "appendLost">>

\* Lines 370-502: locals, onEvent, beginSSL (which resets the client to
\* not connected), sendTXT(config), allocation of the audio buffer.
PumpSetup(t) ==
  /\ ~crashed /\ pc[t] = "setup"
  /\ UNCHANGED << codec, req, bridge, collect, tts >>
  /\ handler' = t
  /\ wsOpen' = FALSE
  /\ phase' = "closed"
  /\ turn' = "none"
  /\ sessionCreated' = [sessionCreated EXCEPT ![t] = FALSE]
  /\ wsConnected' = [wsConnected EXCEPT ![t] = TRUE]
  /\ cfgFrames' = [cfgFrames EXCEPT ![t] = @ + (IF SendTXT(wsOpen') THEN 1 ELSE 0)]
  /\ buffer' = [buffer EXCEPT ![t] = "alloc"]
  /\ pc' = [pc EXCEPT ![t] = "loop"]
  /\ last' = Step("setup", t, "",
                  IF SendTXT(wsOpen') THEN <<"config">> ELSE <<"configLost">>)
  /\ UNCHANGED << _initialized, _isStreaming, _isGPTSpeaking, _streamingTask,
                  _audioFillCallback, _audioResponseCallback,
                  fg, crashed, stopped, closed >>

\* Line 503: while (_isStreaming) found false; the loop is left, and
\* wsConnected, which only the loop reads, is dead from here on.
PumpLeave(t) ==
  /\ ~crashed /\ pc[t] = "loop"
  /\ UNCHANGED << codec, req, bridge, collect, tts >>
  /\ ~_isStreaming
  /\ pc' = [pc EXCEPT ![t] = "exit"]
  /\ wsConnected' = Locals(wsConnected, {t})
  /\ last' = Step("leave", t, "", <<>>)
  /\ UNCHANGED << _initialized, _isStreaming, _isGPTSpeaking, _streamingTask,
                  _audioFillCallback, _audioResponseCallback,
                  sessionCreated, buffer, wsOpen, handler,
                  fg, crashed, phase, turn, stopped, closed, cfgFrames >>

\* Line 503 found true, lines 504-508 when no more than 10 ms have passed
\* since the last poll: no poll in this iteration.
PumpSkip(t) ==
  /\ ~crashed /\ pc[t] = "loop"
  /\ UNCHANGED << codec, req, bridge, collect, tts >>
  /\ _isStreaming
  /\ pc' = [pc EXCEPT ![t] = "fill"]
  /\ last' = Step("skip", t, "", <<>>)
  /\ UNCHANGED << _initialized, _isStreaming, _isGPTSpeaking, _streamingTask,
                  _audioFillCallback, _audioResponseCallback,
                  sessionCreated, wsConnected, buffer, wsOpen, handler,
                  fg, crashed, phase, turn, stopped, closed, cfgFrames >>

\* Line 503 found true, lines 504-508: gptWebSocket->loop() hands ev to the
\* registered handler (lines 374-486), then wsConnected = isConnected().
PumpPoll(t, ev, sc) ==
  /\ ~crashed /\ pc[t] = "loop"
  /\ UNCHANGED << codec, req, bridge, collect, tts >>
  /\ _isStreaming
  /\ ev \in LoopEvents(wsOpen)
  /\ sc \in ScRead
  /\ wsOpen' = OpenAfter(ev, wsOpen)
  /\ sessionCreated' = ScWrite(ev)
  /\ _isGPTSpeaking' = SpeakingAfter(ev, sc, _isGPTSpeaking)
  /\ _isStreaming' = StreamingAfter(ev, _isStreaming)
  /\ wsConnected' = [wsConnected EXCEPT ![t] = wsOpen']
  /\ phase' = PhaseAfter(ev, phase)
  /\ turn' = TurnAfter(ev, sc, turn)
  /\ pc' = [pc EXCEPT ![t] = "fill"]
  /\ last' = Step("poll", t, ev, HandlerCalls(ev, sc, _audioResponseCallback))
  /\ UNCHANGED << _initialized, _streamingTask, _audioFillCallback,
                  _audioResponseCallback, buffer, handler,
                  fg, crashed, stopped, closed, cfgFrames >>

\* Lines 510-529 with the condition of line 511 false: nothing but the yield.
PumpIdle(t) ==
  /\ ~crashed /\ pc[t] = "fill"
  /\ UNCHANGED << codec, req, bridge, collect, tts >>
  /\ ~AudioGate(t)
  /\ last' = Step("idle", t, "", <<>>)
  /\ pc' = [pc EXCEPT ![t] = "loop"]
  /\ UNCHANGED << _initialized, _isStreaming, _isGPTSpeaking, _streamingTask,
                  _audioFillCallback, _audioResponseCallback,
                  sessionCreated, wsConnected, buffer, wsOpen, handler,
                  fg, crashed, phase, turn, stopped, closed, cfgFrames >>

\* Lines 510-529 with the condition of line 511 true: the producer is
\* pulled, its chunk framed and sent, the buffer zeroed; then the yield.
PumpFill(t, bytesRead, frameOk) ==
  /\ ~crashed /\ pc[t] = "fill"
  /\ UNCHANGED << codec, req, bridge, collect, tts >>
  /\ AudioGate(t)
  /\ last' = Step("fill", t, "", FillCalls(bytesRead, frameOk, wsOpen))
  /\ pc' = [pc EXCEPT ![t] = "loop"]
  /\ UNCHANGED << _initialized, _isStreaming, _isGPTSpeaking, _streamingTask,
                  _audioFillCallback, _audioResponseCallback,
                  sessionCreated, wsConnected, buffer, wsOpen, handler,
                  fg, crashed, phase, turn, stopped, closed, cfgFrames >>

\* Lines 531-535 and 346: heap_caps_free(buffer); gptWebSocket->disconnect(),
\* which on a connected client closes it and runs the handler on
\* WStype_DISCONNECTED; then, streamingTask having returned,
\* vTaskDelete(service->_streamingTask). With the handle of this task (or
\* nullptr) the task deletes itself; with the handle of another task it
\* deletes that one (a use after free when that one is gone already) and
\* then returns from its task function, which FreeRTOS answers with an abort.
PumpExit(t) ==
  /\ ~crashed /\ pc[t] = "exit"
  /\ UNCHANGED << codec, req, bridge, collect, tts >>
  /\ buffer' = [buffer EXCEPT ![t] = "freed"]
  /\ closed' = [closed EXCEPT ![t] = TRUE]
  /\ wsOpen' = FALSE
  /\ wsConnected' = Locals(wsConnected, {t, _streamingTask} \ {NoTask})
  /\ sessionCreated' =
       Locals(IF wsOpen THEN ScWrite("DISCONNECTED") ELSE sessionCreated,
              {t, _streamingTask} \ {NoTask})
  /\ IF wsOpen THEN
       /\ _isGPTSpeaking' = SpeakingAfter("DISCONNECTED", FALSE, _isGPTSpeaking)
       /\ phase' = PhaseAfter("DISCONNECTED", phase)
       /\ turn' = TurnAfter("DISCONNECTED", FALSE, turn)
     ELSE
       UNCHANGED << _isGPTSpeaking, phase, turn >>
  /\ IF _streamingTask \in {NoTask, t} THEN
       /\ pc' = [pc EXCEPT ![t] = "ended"]
       /\ last' = Step("exit", t, IF wsOpen THEN "DISCONNECTED" ELSE "",
                       <<"free", "disconnect", "delete">>)
       /\ UNCHANGED crashed
     ELSE
       /\ pc' = [pc EXCEPT ![t] = "ended", ![_streamingTask] = "killed"]
       /\ crashed' = TRUE
       /\ last' = Step("exit", t, IF wsOpen THEN "DISCONNECTED" ELSE "",
                       IF Alive(_streamingTask)
                         THEN <<"free", "disconnect", "deleteOther">>
                         ELSE <<"free", "disconnect", "deleteDead">>)
  /\ UNCHANGED << _initialized, _isStreaming, _streamingTask,
                  _audioFillCallback, _audioResponseCallback,
                  handler, fg, stopped, cfgFrames >>

(***************************************************************************)
(* base64Encode and base64Decode                                           *)
(***************************************************************************)
\* Line 245: the alphabet, indexed from 1 here and from 0 in the code.
base64Chars ==
  <<
     "A", "B", "C", "D", "E", "F", "G", "H", "I", "J", "K", "L", "M",
     "N", "O", "P", "Q", "R", "S", "T", "U", "V", "W", "X", "Y", "Z",
     "a", "b", "c", "d", "e", "f", "g", "h", "i", "j", "k", "l", "m",
     "n", "o", "p", "q", "r", "s", "t", "u", "v", "w", "x", "y", "z",
     "0", "1", "2", "3", "4", "5", "6", "7", "8", "9", "+", "/" >>

\* The 64 characters of the alphabet, and the position of each in it.
AlphabetChars == {base64Chars[i] : i \in DOMAIN base64Chars}

AlphabetPos ==
  [c \in AlphabetChars |-> (CHOOSE i \in DOMAIN base64Chars : base64Chars[i] = c) - 1]

\* A decoder table that maps every character outside the alphabet to 0.
base64IndexNoiseAsZero(c) == IF c \in AlphabetChars THEN AlphabetPos[c] ELSE 0

\* Lines 276-293: the table base64Index, the position of c in the alphabet
\* and -1 for every other character, '=' included.
base64Index(c) == IF c \in AlphabetChars THEN AlphabetPos[c] ELSE -1

\* x << n and x >> n on the uint32_t accumulator "buffer". The shifts of
\* the code wrap at 32 bits; no bit above bit 13 is ever read (fewer than
\* 14 bits are pending when a group is taken out), so the accumulator is
\* kept to its low 24 bits, which decide every output.
Shl(x, n) == (x % (2 ^ (24 - n))) * (2 ^ n)

Shr(x, n) == x \div (2 ^ n)

\* Lines 260-263: while (bits >= 6), one character out per 6 bits.
RECURSIVE Drain(_, _, _)
Drain(buf, bits, encoded) ==
  IF bits >= 6
    THEN Drain(buf, bits - 6,
               Append(encoded, base64Chars[(Shr(buf, bits - 6) % 64) + 1]))
    ELSE [bits |-> bits, encoded |-> encoded]

\* Lines 251-264: while (i < length || bits > 0); past the end of the data
\* the accumulator is fed zero bytes until no bit is pending.
RECURSIVE EncodeLoop(_, _, _, _, _)
EncodeLoop(data, i, buf, bits, encoded) ==
  IF i < Len(data) \/ bits > 0 THEN
    LET fed == IF i < Len(data) THEN Shl(buf, 8) + data[i + 1] ELSE Shl(buf, 8)
        next == IF i < Len(data) THEN i + 1 ELSE i
        d == Drain(fed, bits + 8, encoded)
    IN  EncodeLoop(data, next, fed, d.bits, d.encoded)
  ELSE encoded

\* A padding loop that pads to a multiple of 3 characters.
NeedsPaddingModThree(encoded) == Len(encoded) % 3 # 0

\* Line 267: the condition of the padding loop.
NeedsPadding(encoded) == Len(encoded) % 4 # 0

\* Lines 267-269: while (encoded.length() % 4 != 0) encoded += '='.
RECURSIVE Pad(_)
Pad(encoded) ==
  IF NeedsPadding(encoded) THEN Pad(Append(encoded, "=")) ELSE encoded

\* base64Encode(data, length), lines 243-272.
base64Encode(data) == Pad(EncodeLoop(data, 0, 0, 0, <<>>))

\* A decoder that does not stop at '='.
IsPaddingNever(c) == FALSE

\* Line 301: if (c == '=') break.
IsPadding(c) == c = "="

\* Lines 299-313: the loop over the input; a byte out whenever 8 bits are
\* pending.
RECURSIVE DecodeLoop(_, _, _, _, _)
DecodeLoop(input, i, buf, bits, decoded) ==
  IF i >= Len(input) THEN decoded
  ELSE IF IsPadding(input[i + 1]) THEN decoded
  ELSE IF base64Index(input[i + 1]) = -1
    THEN DecodeLoop(input, i + 1, buf, bits, decoded)
  ELSE
    LET fed == Shl(buf, 6) + base64Index(input[i + 1])
        n == bits + 6
    IN  IF n >= 8
          THEN DecodeLoop(input, i + 1, fed, n - 8,
                          Append(decoded, Shr(fed, n - 8) % 256))
          ELSE DecodeLoop(input, i + 1, fed, n, decoded)

\* base64Decode(input), lines 274-316.
base64Decode(input) == DecodeLoop(input, 0, 0, 0, <<>>)

\* The bytes the calls are tried on: 0, 77 ('M'), and 251, whose top six
\* bits select '+' and which, repeated, selects '/'.
SampleBytes == {0, 77, 251}

\* The characters a text handed to base64Decode is made of: alphabet
\* characters, the padding character and one that is neither.
SampleChars == {"T", "Q", "/", "=", " "}

\* Characters outside the alphabet, other than '='.
NoiseChars == {" ", "\n"}

\* Line 512: the producer writes one more byte into the buffer that line 518
\* hands to base64Encode.
PutByte(x) ==
  /\ codec.op \in {"none", "bytes"}
  /\ Len(codec.data) < MaxBytes
  /\ codec' = [op |-> "bytes", data |-> Append(codec.data, x),
               text |-> <<>>, out |-> <<>>]
  /\ UNCHANGED << serviceVars, req, bridge, collect, tts >>

\* Lines 396 and 404: one more character in the "delta" field that lines 398
\* and 406 hand to base64Decode.
PutChar(c) ==
  /\ codec.op \in {"none", "text"}
  /\ Len(codec.text) < MaxText
  /\ codec' = [op |-> "text", data |-> <<>>,
               text |-> Append(codec.text, c), out |-> <<>>]
  /\ UNCHANGED << serviceVars, req, bridge, collect, tts >>

\* Line 518: base64Encode(buffer, bytesRead).
Encode ==
  /\ codec.op \in {"none", "bytes"}
  /\ codec' = [codec EXCEPT !.op = "encode", !.text = base64Encode(codec.data)]
  /\ UNCHANGED << serviceVars, req, bridge, collect, tts >>

\* Lines 398 and 406: base64Decode(audioBase64), on any text.
Decode ==
  /\ codec.op \in {"none", "text"}
  /\ codec' = [codec EXCEPT !.op = "decode", !.out = base64Decode(codec.text)]
  /\ UNCHANGED << serviceVars, req, bridge, collect, tts >>

\* The RFC 4648 encoder the server applies to the audio it sends: three
\* bytes to four characters, a last group of one or two bytes padded with
\* "==" or "=".
RECURSIVE Rfc4648Encode(_)
Rfc4648Encode(b) ==
  IF Len(b) = 0 THEN <<>>
  ELSE IF Len(b) = 1 THEN
    << base64Chars[(b[1] \div 4) + 1],
       base64Chars[((b[1] % 4) * 16) + 1], "=", "=" >>
  ELSE IF Len(b) = 2 THEN
    << base64Chars[(b[1] \div 4) + 1],
       base64Chars[((b[1] % 4) * 16 + (b[2] \div 16)) + 1],
       base64Chars[((b[2] % 16) * 4) + 1], "=" >>
  ELSE
    << base64Chars[(b[1] \div 4) + 1],
       base64Chars[((b[1] % 4) * 16 + (b[2] \div 16)) + 1],
       base64Chars[((b[2] % 16) * 4 + (b[3] \div 64)) + 1],
       base64Chars[(b[3] % 64) + 1] >> \o Rfc4648Encode(SubSeq(b, 4, Len(b)))

\* s with character c inserted after its first p characters.
Insert(s, p, c) == SubSeq(s, 1, p) \o <<c>> \o SubSeq(s, p + 1, Len(s))

NoiseCount(s) == Cardinality({i \in 1 .. Len(s) : s[i] \in NoiseChars})

\* Lines 398 and 406 on a delta the server encoded from the bytes in data.
DecodeDelta ==
  /\ codec.op \in {"none", "bytes"}
  /\ codec' = [op |-> "delta", data |-> codec.data,
               text |-> Rfc4648Encode(codec.data),
               out |-> base64Decode(Rfc4648Encode(codec.data))]
  /\ UNCHANGED << serviceVars, req, bridge, collect, tts >>

\* Lines 398 and 406 on the same delta with one more character that is not
\* of the alphabet, c, inserted after its first p characters.
DecodeNoisy(p, c) ==
  /\ codec.op = "delta"
  /\ NoiseCount(codec.text) < MaxNoise
  /\ p \in 0 .. Len(codec.text)
  /\ codec' = [codec EXCEPT !.text = Insert(codec.text, p, c),
                            !.out = base64Decode(Insert(codec.text, p, c))]
  /\ UNCHANGED << serviceVars, req, bridge, collect, tts >>

(***************************************************************************)
(* speechToSpeechStream and performStsStreaming                            *)
(***************************************************************************)
\* What a gptWebSocket->loop() can hand to the handler of the request.
ReqEvents(connected) ==
  IF connected
    THEN {"NONE", "session.created", "response.audio.delta",
          "response.audio.done", "error", "ERROR", "DISCONNECTED", "unknown"}
    ELSE {"NONE", "CONNECTED", "ERROR"}

\* Lines 104-198: what the handler of the request does on ev. "chunk" is
\* callback(filePath, data, size, false), "last" is
\* callback(filePath, nullptr, 0, true); fileOk says that the file could be
\* opened and its buffer allocated.
ReqCalls(ev, fileOk) ==
  CASE ev = "CONNECTED" -> <<"config">>
    [] ev = "session.created" /\ fileOk -> <<"append", "commit", "response.create">>
    [] ev = "response.audio.delta" -> <<"chunk">>
    [] ev \in {"response.audio.done", "error", "ERROR"} -> <<"last", "disconnect">>
    [] OTHER -> <<>>

\* isConnected() after the client has delivered ev and the handler has run.
ReqConnectedAfter(ev, out, cur) ==
  CASE ev = "CONNECTED" -> TRUE
    [] ev = "DISCONNECTED" \/ Has(out, "disconnect") -> FALSE
    [] OTHER -> cur

\* The request after the calls in out have been made at pc, event ev.
ReqAfterCalls(op, pcNext, ev, out, connected) ==
  [pc |-> pcNext, connected |-> connected,
   finals |-> req.finals + Count(out, "last"),
   chunks |-> req.chunks + Count(out, "chunk"),
   late |-> req.late \/ (req.finals > 0 /\ (Has(out, "last") \/ Has(out, "chunk"))),
   op |-> op, ev |-> ev, out |-> out]

\* Lines 53-61: the lambda speechToSpeech passes as stream callback, run
\* for the stream callbacks in out of request r. audioBuffer is a static
\* local of the lambda: one vector for all requests.
Lambda(c, r, out) ==
  IF Has(out, "chunk")
    THEN [c EXCEPT !.audioBuffer = Append(@, r)]
  ELSE IF Has(out, "last")
    THEN [c EXCEPT !.calls[r] = @ + 1, !.got[r] = c.audioBuffer,
                   !.audioBuffer = <<>>]
  ELSE c

\* What the stream callbacks in out of request 1 do to the collector: they
\* run the lambda when the request was made through speechToSpeech.
Collected(out) == IF collect.wrapped THEN Lambda(collect, 1, out) ELSE collect

\* Lines 69-100: the three early returns, else the task is created.
ReqCall(wifi, exists) ==
  IF ~_initialized THEN ReqAfterCalls("call", "done", "uninitialised", <<"last">>, FALSE)
  ELSE IF ~wifi THEN ReqAfterCalls("call", "done", "nowifi", <<"last">>, FALSE)
  ELSE IF ~exists THEN ReqAfterCalls("call", "done", "nofile", <<"last">>, FALSE)
  ELSE ReqAfterCalls("call", "task", "", <<"task">>, FALSE)

\* speechToSpeechStream(filePath, callback) with the caller's own callback.
speechToSpeechStream(wifi, exists) ==
  /\ req.pc = "idle"
  /\ req' = ReqCall(wifi, exists)
  /\ UNCHANGED << serviceVars, codec, bridge, collect, tts >>

\* Lines 51-63: speechToSpeech(filePath, callback), which calls
\* speechToSpeechStream with the collecting lambda.
speechToSpeech(wifi, exists) ==
  /\ req.pc = "idle"
  /\ req' = ReqCall(wifi, exists)
  /\ collect' = Lambda([collect EXCEPT !.wrapped = TRUE], 1, req'.out)
  /\ UNCHANGED << serviceVars, codec, bridge, tts >>

\* Lines 51-63 and 70-87: a second speechToSpeech call, made while request 1
\* is under way or after it, that takes one of the early returns: its
\* lambda is called once, with isLastChunk true.
speechToSpeechRejected(wifi, exists) ==
  /\ req.pc # "idle" /\ collect.wrapped
  /\ collect.calls[2] = 0
  /\ ~(_initialized /\ wifi /\ exists)
  /\ collect' = Lambda(collect, 2, <<"last">>)
  /\ UNCHANGED << serviceVars, codec, bridge, req, tts >>

\* Lines 102-208: onEvent, setExtraHeaders, beginSSL (which resets the
\* client to not connected), setReconnectInterval, startTime.
performStsStreaming ==
  /\ req.pc = "task"
  /\ req' = ReqAfterCalls("begin", "wait", "", <<>>, FALSE)
  /\ collect' = Collected(req'.out)
  /\ UNCHANGED << serviceVars, codec, bridge, tts >>

\* Line 209: the condition of the wait loop; timedOut says that 30 s have
\* passed since line 208.
ReqWaitTest(timedOut) ==
  /\ req.pc = "wait"
  /\ req' = ReqAfterCalls("test", IF req.connected /\ ~timedOut THEN "body" ELSE "after",
                          IF timedOut THEN "timeout" ELSE "", <<>>, req.connected)
  /\ collect' = Collected(req'.out)
  /\ UNCHANGED << serviceVars, codec, bridge, tts >>

\* Lines 210-211: gptWebSocket->loop() in the wait loop hands ev to the
\* handler.
ReqLoop(ev, fileOk) ==
  /\ req.pc = "body"
  /\ ev \in ReqEvents(req.connected)
  /\ req.finals + req.chunks + Count(ReqCalls(ev, fileOk), "last")
       + Count(ReqCalls(ev, fileOk), "chunk") <= MaxCallbacks
  /\ req' = ReqAfterCalls("loop", "wait", ev, ReqCalls(ev, fileOk),
                          ReqConnectedAfter(ev, ReqCalls(ev, fileOk), req.connected))
  /\ collect' = Collected(req'.out)
  /\ UNCHANGED << serviceVars, codec, bridge, tts >>

\* Line 505: gptWebSocket is the one client of the service, so the
\* gptWebSocket->loop() of a running streamingTask drives the connection
\* that beginSSL of line 204 configured and hands ev to the handler of the
\* request, while the request's task stands before the test of line 209.
ReqForeignLoop(ev, fileOk) ==
  /\ req.pc = "wait"
  /\ ev \in ReqEvents(req.connected) \ {"NONE"}
  /\ req.finals + req.chunks + Count(ReqCalls(ev, fileOk), "last")
       + Count(ReqCalls(ev, fileOk), "chunk") <= MaxCallbacks
  /\ req' = ReqAfterCalls("foreign", "wait", ev, ReqCalls(ev, fileOk),
                          ReqConnectedAfter(ev, ReqCalls(ev, fileOk), req.connected))
  /\ collect' = Collected(req'.out)
  /\ UNCHANGED << serviceVars, codec, bridge, tts >>

\* Lines 214-219 and 96-98: the report of a failed connection,
\* disconnect(), and the end of the task.
ReqFinish ==
  /\ req.pc = "after"
  /\ req' = ReqAfterCalls("finish", "done", "",
                          IF req.connected THEN <<"disconnect">>
                                           ELSE <<"last", "disconnect">>,
                          FALSE)
  /\ collect' = Collected(req'.out)
  /\ UNCHANGED << serviceVars, codec, bridge, tts >>

(***************************************************************************)
(* GPTTtsService: textToSpeechStream and the task of performTtsRequest     *)
(***************************************************************************)
\* tts.cpp line 159: the zero reads in a row that end the read loop.
MAX_ZERO_READS == 10

\* A streaming read loop that leaves on zero reads as the collecting loop
\* of lines 185-194 does: it breaks and calls nothing.
StreamReadCallsSilentBreak(timedOut, bytesAvailable, bytesRead, zeroReads) ==
  IF timedOut THEN <<"last">>
  ELSE IF bytesAvailable = 0 THEN <<>>
  ELSE IF bytesRead > 0 THEN <<"chunk">>
  ELSE <<"last">>

\* tts.cpp lines 236-287: the calls of the stream callback one iteration of
\* the read loop makes. "chunk" is cb(txt, buffer, bytesRead, false) with
\* bytesRead > 0, "last" is cb(txt, nullptr, 0, true). timedOut is the
\* timeout test of lines 240-251, zeroReads is consecutiveZeroReads before.
StreamReadCalls(timedOut, bytesAvailable, bytesRead, zeroReads) ==
  IF timedOut THEN <<"last">>
  ELSE IF bytesAvailable = 0
    THEN IF zeroReads + 1 >= MAX_ZERO_READS THEN <<"last">> ELSE <<>>
  ELSE IF bytesRead > 0 THEN <<"chunk">>
  ELSE <<"last">>

\* tts.cpp lines 236-287: whether the iteration leaves the loop by a break.
StreamReadEnds(timedOut, bytesAvailable, bytesRead, zeroReads) ==
  \/ timedOut
  \/ bytesAvailable = 0 /\ zeroReads + 1 >= MAX_ZERO_READS
  \/ bytesAvailable > 0 /\ bytesRead = 0

\* Which exit or step of the loop the iteration is.
StreamReadEvent(timedOut, bytesAvailable, bytesRead, zeroReads) ==
  IF timedOut
    THEN IF tts.dataReceived THEN "interChunkTimeout" ELSE "initialTimeout"
  ELSE IF bytesAvailable = 0
    THEN IF zeroReads + 1 >= MAX_ZERO_READS THEN "zeroReads" ELSE "wait"
  ELSE IF bytesRead > 0 THEN "chunk"
  ELSE "zeroByteRead"

\* The request after the calls in out have been made.
TtsAfterCalls(pcNext, ev, out, dataReceived, zeroReads) ==
  [initialized |-> tts.initialized, pc |-> pcNext,
   dataReceived |-> dataReceived, consecutiveZeroReads |-> zeroReads,
   finals |-> tts.finals + Count(out, "last"),
   chunks |-> tts.chunks + Count(out, "chunk"),
   empties |-> tts.empties + Count(out, "empty"),
   late |-> tts.late \/ (tts.finals > 0 /\ out # <<>>),
   ev |-> ev, out |-> out]

\* tts.cpp lines 31-42: GPTTtsService::init(apiKey).
TtsInit(keyEmpty) ==
  /\ tts.pc = "idle"
  /\ tts' = [tts EXCEPT !.initialized = IF keyEmpty THEN @ ELSE TRUE,
                        !.ev = "init", !.out = <<>>]
  /\ UNCHANGED << serviceVars, codec, req, bridge, collect >>

\* tts.cpp lines 332-338 and 58-100: textToSpeechStream(text, callback):
\* the three early returns, else the task is created.
textToSpeechStream(wifi, textEmpty) ==
  /\ tts.pc = "idle"
  /\ tts' = IF ~tts.initialized THEN TtsAfterCalls("done", "uninitialised", <<"last">>, FALSE, 0)
            ELSE IF ~wifi THEN TtsAfterCalls("done", "nowifi", <<"last">>, FALSE, 0)
            ELSE IF textEmpty THEN TtsAfterCalls("done", "emptyText", <<"last">>, FALSE, 0)
            ELSE TtsAfterCalls("post", "task", <<>>, FALSE, 0)
  /\ UNCHANGED << serviceVars, codec, req, bridge, collect >>

\* tts.cpp lines 104-163 and 291-308: http.POST; with a code other than 200
\* the error is logged and reported, else the read loop is set up.
TtsPost(ok) ==
  /\ tts.pc = "post"
  /\ tts' = IF ok THEN TtsAfterCalls("read", "200", <<>>, FALSE, 0)
            ELSE TtsAfterCalls("done", "httpError", <<"last">>, FALSE, 0)
  /\ UNCHANGED << serviceVars, codec, req, bridge, collect >>

\* tts.cpp lines 236-287: one iteration of the streaming read loop.
\* readBytes returns no more than was available.
TtsRead(timedOut, bytesAvailable, bytesRead) ==
  /\ tts.pc = "read"
  /\ bytesRead <= bytesAvailable
  /\ tts.chunks + Count(StreamReadCalls(timedOut, bytesAvailable, bytesRead,
                                        tts.consecutiveZeroReads), "chunk")
       <= MaxChunks
  /\ tts' = TtsAfterCalls(
              IF StreamReadEnds(timedOut, bytesAvailable, bytesRead,
                                tts.consecutiveZeroReads) THEN "done" ELSE "read",
              StreamReadEvent(timedOut, bytesAvailable, bytesRead,
                              tts.consecutiveZeroReads),
              StreamReadCalls(timedOut, bytesAvailable, bytesRead,
                              tts.consecutiveZeroReads),
              tts.dataReceived \/ (~timedOut /\ bytesAvailable > 0),
              IF timedOut THEN tts.consecutiveZeroReads
              ELSE IF bytesAvailable = 0 THEN tts.consecutiveZeroReads + 1
              ELSE 0)
  /\ UNCHANGED << serviceVars, codec, req, bridge, collect >>

(***************************************************************************)
(* The tool-call bridge: pending calls and submitToolResult                *)
(***************************************************************************)
\* One step of the bridge: what was done, for which call, in which state.
BridgeStep(op, c, result, sent) ==
  [op |-> op, call |-> c,
   was |-> IF c \in CallIds THEN bridge.calls[c] ELSE "",
   wasActive |-> bridge.state = "Active",
   result |-> result, sent |-> sent]

BridgeTo(state, calls, step) ==
  bridge' = [state |-> state, calls |-> calls, op |-> step.op,
             call |-> step.call, was |-> step.was,
             wasActive |-> step.wasActive, result |-> step.result,
             sent |-> step.sent]

\* A bridge that keeps its pending calls when the session ends.
CallsKeptAtSessionEnd(calls) == calls

\* The pending calls are discarded when the session ends.
CallsAfterSessionEnd(calls) ==
  [c \in CallIds |-> IF calls[c] = "pending" THEN "discarded" ELSE calls[c]]

\* A bridge that accepts a result for any call it has ever seen pending.
SubmitAcceptedIfEverPending(state, status) ==
  state = "Active" /\ status \in {"pending", "consumed"}

\* A submission is accepted when the call is pending in an Active session.
SubmitAccepted(state, status) == state = "Active" /\ status = "pending"

\* start(): Disconnected to Connecting; no call of an earlier session is
\* pending.
BridgeStart ==
  /\ bridge.state = "Disconnected"
  /\ BridgeTo("Connecting", bridge.calls, BridgeStep("start", 0, "", <<>>))
  /\ UNCHANGED << serviceVars, codec, req, collect, tts >>

\* onSessionUpdated closes the handshake: Connecting to Active.
BridgeSessionUpdated ==
  /\ bridge.state = "Connecting"
  /\ BridgeTo("Active", bridge.calls, BridgeStep("updated", 0, "", <<>>))
  /\ UNCHANGED << serviceVars, codec, req, collect, tts >>

\* response.function_call_arguments.done with call_id c: in Active a
\* PendingToolCall is made unless one with this id is pending already;
\* outside Active the event is ignored.
onFunctionCallArgumentsDone(c) ==
  /\ bridge.state # "Disconnected"
  /\ IF bridge.state = "Active" /\ bridge.calls[c] # "pending"
       THEN BridgeTo(bridge.state, [bridge.calls EXCEPT ![c] = "pending"],
                     BridgeStep("call", c, "pending", <<"onToolCall">>))
       ELSE BridgeTo(bridge.state, bridge.calls,
                     BridgeStep("call", c, "ignored", <<>>))
  /\ UNCHANGED << serviceVars, codec, req, collect, tts >>

\* submitToolResult(callId, output): rejected unless callId is pending;
\* else conversation.item.create, response.create, and the record cleared.
submitToolResult(c) ==
  /\ IF SubmitAccepted(bridge.state, bridge.calls[c])
       THEN BridgeTo(bridge.state, [bridge.calls EXCEPT ![c] = "consumed"],
                     BridgeStep("submit", c, "ok",
                                <<"conversation.item.create", "response.create">>))
       ELSE BridgeTo(bridge.state, bridge.calls,
                     BridgeStep("submit", c, "ToolBridgeError", <<>>))
  /\ UNCHANGED << serviceVars, codec, req, collect, tts >>

\* onDisconnected / onFatalError: any state to Disconnected.
BridgeDisconnected ==
  /\ bridge.state # "Disconnected"
  /\ BridgeTo("Disconnected", CallsAfterSessionEnd(bridge.calls),
              BridgeStep("disconnected", 0, "", <<>>))
  /\ UNCHANGED << serviceVars, codec, req, collect, tts >>

\* stop(): safe in any state, ends the session.
BridgeStop ==
  /\ BridgeTo("Disconnected", CallsAfterSessionEnd(bridge.calls),
              BridgeStep("stop", 0, "", <<>>))
  /\ UNCHANGED << serviceVars, codec, req, collect, tts >>

(***************************************************************************)
(* Specifications                                                          *)
(***************************************************************************)
\* The callbacks a caller hands to start(): both given, or both empty.
CallbackArgs == {<<TRUE, TRUE>>, <<FALSE, FALSE>>}

PumpStep(t) ==
  \/ PumpSetup(t)
  \/ PumpLeave(t)
  \/ PumpSkip(t)
  \/ \E ev \in TextTypes \cup {"CONNECTED", "DISCONNECTED", "ERROR", "NONE"} :
       \E sc \in BOOLEAN : PumpPoll(t, ev, sc)
  \/ PumpIdle(t)
  \/ \E bytesRead \in 0 .. 1 : \E frameOk \in BOOLEAN : PumpFill(t, bytesRead, frameOk)
  \/ PumpExit(t)

\* The application initialises the service at boot, until init() succeeds.
Next ==
  \/ \E keyEmpty \in BOOLEAN : ~_initialized /\ init(keyEmpty)
  \/ \E cbs \in CallbackArgs : \E wifi \in BOOLEAN : start(cbs[1], cbs[2], wifi)
  \/ StopBegin
  \/ StopDelete
  \/ \E t \in Tasks : PumpStep(t)

Spec == Init /\ [][Next]_vars

\* The pump tasks are scheduled: each runs at priority 5 and yields with
\* taskYIELD() once per iteration, so a task that can step does step.
FairSpec == Spec /\ \A t \in Tasks : WF_vars(PumpStep(t))

\* The same program in a quieter environment, for the liveness of the
\* pump: the key is valid, WiFi is up, both callbacks are given, and the
\* transport delivers only the events of the session life cycle and no
\* socket error, so that a session ends only by stop().
LiveEvents ==
  { "CONNECTED", "session.created", "response.created", "response.done",
    "DISCONNECTED" }

LivePumpStep(t) ==
  \/ PumpSetup(t)
  \/ PumpLeave(t)
  \/ PumpSkip(t)
  \/ \E ev \in LiveEvents : \E sc \in BOOLEAN : PumpPoll(t, ev, sc)
  \/ PumpIdle(t)
  \/ \E bytesRead \in 0 .. 1 : \E frameOk \in BOOLEAN : PumpFill(t, bytesRead, frameOk)
  \/ PumpExit(t)

LiveNext ==
  \/ ~_initialized /\ init(FALSE)
  \/ start(TRUE, TRUE, TRUE)
  \/ StopBegin
  \/ StopDelete
  \/ \E t \in Tasks : LivePumpStep(t)

LiveSpec == Init /\ [][LiveNext]_vars /\ \A t \in Tasks : WF_vars(LivePumpStep(t))

\* The same program when the socket fails: the key is valid, WiFi is up,
\* both callbacks are given, and the transport delivers the events that
\* open a session and the socket error that ends it.
FaultEvents == { "CONNECTED", "session.created", "ERROR" }

FaultPumpStep(t) ==
  \/ PumpSetup(t)
  \/ PumpLeave(t)
  \/ PumpSkip(t)
  \/ \E ev \in FaultEvents : \E sc \in BOOLEAN : PumpPoll(t, ev, sc)
  \/ PumpIdle(t)
  \/ PumpFill(t, 1, TRUE)
  \/ PumpExit(t)

FaultNext ==
  \/ ~_initialized /\ init(FALSE)
  \/ start(TRUE, TRUE, TRUE)
  \/ StopBegin
  \/ StopDelete
  \/ \E t \in Tasks : FaultPumpStep(t)

FaultSpec == Init /\ [][FaultNext]_vars /\ \A t \in Tasks : WF_vars(FaultPumpStep(t))

\* The two base64 functions on their own: a byte sequence is built and
\* encoded, or encoded by the server and decoded with or without noise; a
\* text is built and decoded.
CodecNext ==
  \/ \E x \in SampleBytes : PutByte(x)
  \/ \E c \in SampleChars : PutChar(c)
  \/ Encode
  \/ Decode
  \/ DecodeDelta
  \/ \E p \in 0 .. (2 * MaxBytes + MaxNoise + 4) : \E c \in NoiseChars : DecodeNoisy(p, c)

CodecSpec == Init /\ [][CodecNext]_vars

\* One speechToSpeechStream request, from the call to the end of its task.
FileNext ==
  \/ \E keyEmpty \in BOOLEAN : init(keyEmpty)
  \/ \E wifi \in BOOLEAN : \E exists \in BOOLEAN : speechToSpeechStream(wifi, exists)
  \/ performStsStreaming
  \/ \E timedOut \in BOOLEAN : ReqWaitTest(timedOut)
  \/ \E ev \in ReqEvents(TRUE) : \E fileOk \in BOOLEAN : ReqLoop(ev, fileOk)
  \/ \E ev \in ReqEvents(TRUE) \cup ReqEvents(FALSE) :
       \E fileOk \in BOOLEAN : ReqForeignLoop(ev, fileOk)
  \/ ReqFinish

FileSpec == Init /\ [][FileNext]_vars

\* One speechToSpeech request, and a second call that is rejected.
CollectNext ==
  \/ \E keyEmpty \in BOOLEAN : init(keyEmpty)
  \/ \E wifi \in BOOLEAN : \E exists \in BOOLEAN : speechToSpeech(wifi, exists)
  \/ \E wifi \in BOOLEAN : \E exists \in BOOLEAN : speechToSpeechRejected(wifi, exists)
  \/ performStsStreaming
  \/ \E timedOut \in BOOLEAN : ReqWaitTest(timedOut)
  \/ \E ev \in ReqEvents(TRUE) : \E fileOk \in BOOLEAN : ReqLoop(ev, fileOk)
  \/ \E ev \in ReqEvents(TRUE) \cup ReqEvents(FALSE) :
       \E fileOk \in BOOLEAN : ReqForeignLoop(ev, fileOk)
  \/ ReqFinish

CollectSpec == Init /\ [][CollectNext]_vars

\* One textToSpeechStream request, from the call to the end of its task.
TtsNext ==
  \/ \E keyEmpty \in BOOLEAN : TtsInit(keyEmpty)
  \/ \E wifi \in BOOLEAN : \E textEmpty \in BOOLEAN : textToSpeechStream(wifi, textEmpty)
  \/ \E ok \in BOOLEAN : TtsPost(ok)
  \/ \E timedOut \in BOOLEAN : \E bytesAvailable \in 0 .. 1 :
       \E bytesRead \in 0 .. 1 : TtsRead(timedOut, bytesAvailable, bytesRead)

TtsSpec == Init /\ [][TtsNext]_vars

\* A session as the tool-call bridge sees it.
ToolNext ==
  \/ BridgeStart
  \/ BridgeSessionUpdated
  \/ \E c \in CallIds : onFunctionCallArgumentsDone(c)
  \/ \E c \in CallIds : submitToolResult(c)
  \/ BridgeDisconnected
  \/ BridgeStop

ToolSpec == Init /\ [][ToolNext]_vars

(***************************************************************************)
(* Properties                                                              *)
(***************************************************************************)
AliveTasks == {t \in Tasks : Alive(t)}

\* The step just taken sent an input_audio_buffer.append frame.
SentAudio == Has(last.out, "append")

C2_NoAudioDuringResponse == SentAudio => turn # "open"

\* C3: at most one pump task is alive at any time.
C3_OnePump == Cardinality(AliveTasks) <= 1

\* C4: once stop() has returned (and no later start() has created a task)
\* no pump task is alive and no callback is being invoked.
C4_RetiredAfterStop ==
  stopped =>
    /\ AliveTasks = {}
    /\ ~Has(last.out, "fill") /\ ~Has(last.out, "chunk") /\ ~Has(last.out, "last")

\* C5: a pump task that has ended, after having set itself up, has freed its
\* audio buffer and has called disconnect().
C5_CleanupOnEnd ==
  \A t \in Tasks :
    (pc[t] \in {"ended", "killed"} /\ buffer[t] # "none")
      => (buffer[t] = "freed" /\ closed[t])

\* C6: stop() called after a stop() has returned, or before any session
\* was started, returns at once: it changes no state of the service or of
\* the pumps, deletes no task and calls no disconnect.
C6_StopIdempotent ==
  [][ (StopBegin /\ (stopped \/ NumCreated = 0))
        => /\ UNCHANGED progVars
           /\ fg' = "idle"
           /\ last'.out = <<>> ]_vars

\* C6 witness: a session was started and stopped, and stop() was called again.
C6_Witness ==
  /\ last.op = "stop" /\ last.ev = "again"
  /\ NumCreated > 0
  /\ \E t \in Tasks : pc[t] = "killed"

C8_TurnToggle ==
  [][ /\ (last'.op = "poll" /\ last'.ev = "response.created"
            /\ Alive(handler) /\ sessionCreated[handler])
           => (_isGPTSpeaking' /\ last'.out = <<>>)
      /\ (last'.op = "poll" /\ last'.ev = "response.done"
            /\ Alive(handler) /\ sessionCreated[handler])
           => /\ ~_isGPTSpeaking'
              /\ _audioResponseCallback => Count(last'.out, "last") = 1
              /\ Len(last'.out) <= 1
      /\ Has(last'.out, "last")
           => (last'.op = "poll" /\ last'.ev = "response.done") ]_vars

\* C8 witness: a response.done that closes an open response has been
\* processed and the consumer has received the end-of-response signal.
C8_Witness ==
  /\ last.op = "poll" /\ last.ev = "response.done"
  /\ turn = "done" /\ ~_isGPTSpeaking
  /\ last.out = <<"last">>

\* The producer returned a non-empty chunk in the step just taken.
PulledChunk == last.op = "fill" /\ Len(last.out) = 2

\* C9 as stated, in the form a finite run refutes (the chunk a fill step
\* does not send is zeroed at line 526 and never sent later): after a
\* processed response.done, on an open socket and with no stop() under way,
\* a non-empty chunk the producer returns is sent.
C9_ChunkAlwaysSent ==
  (PulledChunk /\ turn = "done" /\ wsOpen /\ _isStreaming /\ fg = "idle")
    => SentAudio

\* Pump t has just processed a response.done that closes a response, in a
\* session that is running, connected and has a producer.
DoneProcessed(t) ==
  /\ last.op = "poll" /\ last.t = t /\ last.ev = "response.done"
  /\ handler = t /\ Alive(t) /\ turn = "done"
  /\ _isStreaming /\ sessionCreated[t] /\ wsConnected[t] /\ _audioFillCallback

\* Pump t pulls the producer, or the session has left the state the claim
\* is about: stopped or ended, disconnected, or in the next response.
PulledOrLeft(t) ==
  \/ last.op = "fill" /\ last.t = t
  \/ ~Alive(t) \/ ~_isStreaming \/ crashed
  \/ ~sessionCreated[t] \/ ~wsConnected[t]
  \/ turn = "open"

\* C9 as amended: after a processed response.done the pump eventually
\* pulls the producer (unless the session is stopped, disconnected or in
\* the next response by then), and a non-empty chunk it pulls is sent in
\* that same iteration provided the frame string was built and the socket
\* is open; a chunk whose frame string came out empty is dropped.
C9_NextChunkSent ==
  /\ \A t \in Tasks : [](DoneProcessed(t) => <>PulledOrLeft(t))
  /\ []((PulledChunk /\ wsOpen) => (SentAudio \/ Has(last.out, "chunkDropped")))

\* C9 witness: after a processed response.done a chunk has been pulled and sent.
C9_Witness == PulledChunk /\ SentAudio /\ turn = "done" /\ _isStreaming

\* C10: every sendTXT of the session.update frame happens on an open
\* connection, and a pump whose session has been created has transmitted
\* exactly one such frame.
C10_ConfigOnceAfterCreated ==
  /\ ~Has(last.out, "configLost")
  /\ \A t \in Tasks :
       (Alive(t) /\ sessionCreated[t] /\ handler = t) => cfgFrames[t] = 1

ErrorProcessed(t) ==
  /\ last.op = "poll" /\ last.t = t /\ last.ev = "ERROR"
  /\ AliveTasks = {t}

\* C12: once WStype_ERROR has been processed the streaming flag is false,
\* and the pump that processed it, scheduled fairly, leaves its loop, frees
\* its buffer, disconnects and deletes itself, unless start() has set the
\* flag again before then.
C12_ErrorEndsPump ==
  /\ []((last.op = "poll" /\ last.ev = "ERROR") => ~_isStreaming)
  /\ \A t \in Tasks :
       [](ErrorProcessed(t)
            => <>(_isStreaming \/ (pc[t] = "ended" /\ buffer[t] = "freed" /\ closed[t])))

\* C12 witness: with no stop() called, a pump has left its loop and has
\* deleted itself, which only a processed socket error brings about.
C12_Witness ==
  /\ last.op = "exit" /\ pc[last.t] = "ended" /\ _streamingTask = last.t
  /\ ~_isStreaming /\ fg = "idle" /\ ~stopped /\ ~crashed
  /\ AliveTasks = {}

C15_RoundTrip ==
  codec.op = "encode" => base64Decode(codec.text) = codec.data

\* C16: base64Encode returns what the RFC 4648 encoder returns, "=" padding
\* included.
C16_EncodeIsRfc4648 ==
  codec.op = "encode" => codec.text = Rfc4648Encode(codec.data)

\* C17: the text base64Encode returns has a length that is a multiple of 4,
\* and is empty for an empty input.
C17_EncodedLength ==
  codec.op = "encode" =>
    /\ Len(codec.text) % 4 = 0
    /\ (codec.data = <<>>) => (codec.text = <<>>)

\* C17 witness: an input whose length is no multiple of 3 has been encoded.
C17_Witness ==
  codec.op = "encode" /\ Len(codec.data) % 3 = 1 /\ Len(codec.text) > 0

\* C18: an RFC 4648 encoding of b with characters outside the alphabet
\* (other than '=') inserted anywhere decodes to exactly b.
C18_NoiseSkipped ==
  codec.op = "delta" => codec.out = codec.data

\* C18 witness: a padded encoding with a noise character inside it has been
\* decoded.
C18_Witness ==
  /\ codec.op = "delta" /\ Len(codec.data) = 2
  /\ \E i \in 2 .. 3 : codec.text[i] \in NoiseChars

\* The part of text s before its first '='.
RECURSIVE BeforePadding(_)
BeforePadding(s) ==
  IF s = <<>> \/ Head(s) = "=" THEN <<>>
  ELSE <<Head(s)>> \o BeforePadding(Tail(s))

\* How many characters of s are of the base64 alphabet.
AlphabetCount(s) ==
  Cardinality({i \in 1 .. Len(s) : s[i] \in AlphabetChars})

\* C19: on every text, whatever its length, base64Decode returns a sequence
\* of bytes; it is what the part before the first '=' decodes to, and it
\* has floor(6k/8) bytes, k being the number of alphabet characters before
\* the first '='.
C19_DecodeTotal ==
  codec.op = "decode" =>
    /\ \A i \in 1 .. Len(codec.out) : codec.out[i] \in 0 .. 255
    /\ codec.out = base64Decode(BeforePadding(codec.text))
    /\ Len(codec.out) = (6 * AlphabetCount(BeforePadding(codec.text))) \div 8

\* C19 witness: a text whose length is no multiple of 4, with alphabet
\* characters after its first '=', has been decoded to one byte.
C19_Witness ==
  /\ codec.op = "decode" /\ Len(codec.text) % 4 # 0
  /\ \E i \in 1 .. Len(codec.text) : \E j \in 1 .. Len(codec.text) :
       i < j /\ codec.text[i] = "=" /\ codec.text[j] \in {"T", "Q", "/"}
  /\ Len(codec.out) = 1

\* C20: a text message that deserializeJson rejects, or whose type no
\* branch names, changes neither _isStreaming nor any sessionCreated flag
\* nor _isGPTSpeaking, calls no callback and sends no frame, leaves the
\* socket, the task handle, the callbacks and the buffers alone, and the
\* pump that polled it goes on with its iteration.
C20_UnknownSkipped ==
  [][ (last'.op = "poll" /\ last'.ev \in {"malformed", "unknown"})
        => /\ UNCHANGED << _isStreaming, sessionCreated, _isGPTSpeaking >>
           /\ UNCHANGED << wsOpen, handler, _streamingTask, buffer, crashed,
                           _audioFillCallback, _audioResponseCallback >>
           /\ last'.out = <<>>
           /\ _isStreaming' /\ pc'[last'.t] = "fill" ]_vars

\* C20 witness: a message of unknown type has been polled in the middle of
\* a response of a created session, whose flags are all set.
C20_Witness ==
  /\ last.op = "poll" /\ last.ev = "unknown"
  /\ handler = last.t /\ sessionCreated[last.t]
  /\ _isStreaming /\ _isGPTSpeaking /\ turn = "open"

C22_EndSignalOnlyWhenSpeaking ==
  (last.op = "poll" /\ Has(last.out, "last")) => turn = "done"

\* C23: a delta event polled in a created session with a consumer
\* registered makes exactly one call of the consumer, with isLastChunk
\* false, in the step that received it; and a call with isLastChunk false
\* is made by no other step.
C23_DeltaDeliveredOnce ==
  /\ ( /\ last.op = "poll"
       /\ last.ev \in {"response.audio.delta", "response.output_audio.delta"}
       /\ handler \in Tasks /\ Alive(handler) /\ sessionCreated[handler]
       /\ _audioResponseCallback )
       => last.out = <<"chunk">>
  /\ Has(last.out, "chunk")
       => /\ last.op = "poll"
          /\ last.ev \in {"response.audio.delta", "response.output_audio.delta"}
          /\ Len(last.out) = 1

\* C23 witness: a response.output_audio.delta of an open response has been
\* handed to the consumer.
C23_Witness ==
  /\ last.op = "poll" /\ last.ev = "response.output_audio.delta"
  /\ last.out = <<"chunk">> /\ turn = "open" /\ handler = last.t

\* C24 as stated: every non-empty chunk the producer returns is sent.
C24_NoChunkDropped == PulledChunk => SentAudio

\* C24 as amended: an iteration pulls the producer at most once, and
\* before anything else; an input_audio_buffer.append frame is sent only by
\* the iteration that pulled a non-empty chunk, and once; a non-empty chunk
\* that is not sent is one whose frame string came out empty or one that
\* met a closed socket.
C24_ChunkSentOnceOrDropped ==
  /\ last.op = "fill"
       => /\ last.out # <<>> /\ last.out[1] = "fill"
          /\ Count(last.out, "fill") = 1
  /\ SentAudio => (PulledChunk /\ last.out[2] = "append")
  /\ PulledChunk
       => \/ SentAudio /\ wsOpen
          \/ Has(last.out, "chunkDropped")
          \/ Has(last.out, "appendLost") /\ ~wsOpen

\* C24 witness: a pulled chunk has been sent on the open socket of a
\* created session.
C24_Witness ==
  /\ last.op = "fill" /\ last.out = <<"fill", "append">>
  /\ wsOpen /\ sessionCreated[last.t] /\ handler = last.t

\* C25 as stated: the producer is pulled only while the session is
\* streaming and created, the socket is open and the model is not speaking.
C25_PullOnlyWhenPermitted ==
  Has(last.out, "fill")
    => /\ _isStreaming /\ sessionCreated[last.t]
       /\ wsOpen /\ ~_isGPTSpeaking

\* C26: a fill step whose pull returns zero bytes sends nothing and calls
\* nothing but the producer, changes neither _isStreaming nor any
\* sessionCreated flag nor _isGPTSpeaking nor the socket nor the buffers,
\* and leaves the pump in its loop.
C26_ZeroBytePullNoEffect ==
  [][ last'.op = "fill"
        => \A t \in Tasks : \A frameOk \in BOOLEAN :
             (pc[t] = "fill" /\ PumpFill(t, 0, frameOk))
               => /\ last'.out = <<"fill">>
                  /\ UNCHANGED << _isStreaming, sessionCreated, _isGPTSpeaking,
                                  wsOpen, wsConnected, buffer, crashed,
                                  _streamingTask, phase, turn >>
                  /\ pc'[t] = "loop" ]_vars

\* C26 witness: a zero-byte pull has been made in a streaming, created
\* session, and its pump is back at the head of its loop.
C26_Witness ==
  /\ last.op = "fill" /\ last.out = <<"fill">>
  /\ _isStreaming /\ sessionCreated[last.t] /\ wsOpen
  /\ pc[last.t] = "loop"

\* C29 as stated: vTaskDelete is never called on the handle of a task that
\* has deleted itself already.
C29_NoDeleteOfDeadTask == ~Has(last.out, "deleteDead")

\* C27: submitToolResult for a call that is pending in an Active session
\* succeeds, sends conversation.item.create then response.create and
\* consumes the call; for a call already consumed, and for an id that was
\* never pending, it fails with ToolBridgeError and sends nothing.
C27_ResultAcceptedOnce ==
  bridge.op = "submit"
    => /\ (bridge.was = "pending" /\ bridge.wasActive)
            => /\ bridge.result = "ok"
               /\ bridge.sent = <<"conversation.item.create", "response.create">>
               /\ bridge.calls[bridge.call] = "consumed"
       /\ bridge.was \in {"consumed", "unseen"}
            => /\ bridge.result = "ToolBridgeError"
               /\ bridge.sent = <<>>
               /\ bridge.calls[bridge.call] = bridge.was

\* C27 witness: a second submission for a call that was consumed in this
\* Active session has been rejected.
C27_Witness ==
  /\ bridge.op = "submit" /\ bridge.was = "consumed" /\ bridge.wasActive
  /\ bridge.result = "ToolBridgeError"

\* C28: no call is pending outside Active, and a submission made outside
\* Active, or for a call that was discarded when its session ended, sends
\* no frame and fails.
C28_NoDeliveryAfterActive ==
  /\ bridge.state # "Active" => \A c \in CallIds : bridge.calls[c] # "pending"
  /\ (bridge.op = "submit" /\ (~bridge.wasActive \/ bridge.was = "discarded"))
       => bridge.sent = <<>> /\ bridge.result = "ToolBridgeError"
  /\ Has(bridge.sent, "conversation.item.create")
       => bridge.wasActive /\ bridge.state = "Active"

\* C28 witness: a result has been submitted, after the disconnect, for a
\* call that was pending when the session disconnected.
C28_Witness ==
  /\ bridge.op = "submit" /\ bridge.was = "discarded"
  /\ bridge.state = "Disconnected" /\ bridge.sent = <<>>

\* C30 as stated: the stream callback is called with isLastChunk true at
\* most once, no call follows that one, and a request that has ended (it
\* returned early, or its task has finished) has made that call.
C30_FinalExactlyOnce ==
  /\ req.finals <= 1
  /\ ~req.late
  /\ req.pc = "done" => req.finals = 1

\* C31 as stated: when the test of line 209 is made right after beginSSL,
\* on a client that is not connected yet, and 30 s have not passed, the
\* wait loop is entered and gptWebSocket->loop() is run.
C31_WaitLoopPolls ==
  [][ (req.op = "begin" /\ req'.op = "test" /\ req'.ev # "timeout")
        => req'.pc = "body" ]_vars

\* C33 as stated: a pump that has polled a connect or a disconnect event
\* finds its sessionCreated flag and _isGPTSpeaking false, and no audio is
\* sent and no audio delta is handed to the consumer on a connection on
\* which session.created has not arrived.
C33_ResetOnReconnect ==
  /\ (last.op = "poll" /\ last.ev \in {"CONNECTED", "DISCONNECTED"})
       => (~sessionCreated[last.t] /\ ~_isGPTSpeaking)
  /\ (SentAudio \/ Has(last.out, "chunk")) => phase \in {"created", "updated"}

\* C32 as stated: the AudioCallback of a speechToSpeech request is called
\* at most once, and once when the request has ended; what it receives
\* holds chunks of its own request only, and all of them.
C32_OneResultOwnChunks ==
  /\ \A r \in Requests :
       /\ collect.calls[r] <= 1
       /\ \A i \in 1 .. Len(collect.got[r]) : collect.got[r][i] = r
  /\ (collect.wrapped /\ req.pc = "done")
       => /\ collect.calls[1] = 1
          /\ Len(collect.got[1]) = req.chunks

\* C34: the stream callback of a textToSpeechStream request is called with
\* isLastChunk true at most once, no call follows that one, every call
\* before it carries a non-empty chunk, and the request has ended exactly
\* when that call has been made.
C34_TtsFinalOnceAndLast ==
  /\ tts.finals <= 1
  /\ ~tts.late
  /\ tts.empties = 0
  /\ tts.pc = "done" <=> tts.finals = 1

\* C34 witness: a request has delivered a chunk and has then ended on ten
\* zero reads in a row, with its one final call.
C34_Witness ==
  /\ tts.pc = "done" /\ tts.ev = "zeroReads"
  /\ tts.chunks >= 1 /\ tts.dataReceived
  /\ tts.finals = 1 /\ tts.out = <<"last">>

====
